---- MODULE Spec2Model ----
(***************************************************************************)
(* Model of mkv-strip.py: the batch pipeline that identifies the tracks of *)
(* every .mkv file of a directory, selects the tracks to keep, remuxes and *)
(* swaps the result into place (specification Spec), and the argument      *)
(* builder of _build_args as a pure function (specification BuilderSpec).  *)
(***************************************************************************)
EXTENDS Integers, Sequences, FiniteSets, TLC

VARIABLES
    pc,                 \* position of the script
    error,              \* kind of the exception that ended the script, "" if none
    files,              \* result of _get_file_list
    inventory,          \* per file name: what identification + parsing yields
    audio_language,     \* args.audio_language, "" when not given
    subtitle_language,  \* args.subtitle_language, "" when not given
    file_to_tracks,     \* the dict of MKVFile records, in insertion order
    idx,                \* index of the running for loop
    fs,                 \* the directory: path -> content, NoFile when absent
    status,             \* per file name: last per-file message logged
    remux_cmds,         \* per file name: arguments the remux tool was run with
    renamed,            \* per file name: number of os.rename calls that succeeded
    langtype,           \* BuilderSpec: argument of _build_args
    filterlang,         \* BuilderSpec: the filtered track list
    cmd                 \* BuilderSpec: the argument fragment built

vars == <<pc, error, files, inventory, audio_language, subtitle_language,
          file_to_tracks, idx, fs, status, remux_cmds, renamed,
          langtype, filterlang, cmd>>

pipeVars == <<pc, error, files, inventory, audio_language, subtitle_language,
              file_to_tracks, idx, fs, status, remux_cmds, renamed>>

builderVars == <<langtype, filterlang, cmd>>

----------------------------------------------------------------------------
(* Bounds and input domains *)

MaxFiles == 2

MaxKeep == 2

FileNames == {"a.mkv", "b.mkv", "olda.mkv"}

AudioInventories ==
    { <<"eng">>, <<"eng", "jpn">>, <<"jpn", "eng">>, <<"eng", "eng">>, <<"jpn", "jpn">> }

SubtitleInventories == { <<>>, <<"eng", "fre">>, <<"fre", "fre">> }

AudioRequests == {"", "eng"}

SubtitleRequests == {"", "fre"}

TrackIds == {"1", "2", "4", "5", "7", "10"}

IdStr == <<"1", "2", "3", "4">>

NoFile == ""

----------------------------------------------------------------------------
(* Paths and contents *)

Path(filename) == filename

OldFile(filename) == "old" \o filename

Temp(filename) == Path(filename) \o ".temp"

AllPaths ==
    UNION { {Path(f), OldFile(f), Temp(f)} : f \in FileNames }

Orig(filename) == "orig:" \o filename

RemuxOutput(content) == "remux:" \o content

Tracks(langs, offset) ==
    [i \in 1..Len(langs) |-> <<IdStr[offset + i], langs[i]>>]

MKVFile(filename, audio, subtitle) ==
    [filename |-> filename, audio |-> audio, subtitle |-> subtitle,
     audio_args |-> <<>>, subtitle_args |-> <<>>]

----------------------------------------------------------------------------
(* _build_args *)

RECURSIVE Join(_, _)
Join(strs, sep) ==
    IF Len(strs) = 0 THEN ""
    ELSE IF Len(strs) = 1 THEN strs[1]
    ELSE strs[1] \o sep \o Join(Tail(strs), sep)

\* the priorities of line 160 swapped: "1" if i else "0"
RECURSIVE DefaultTracksSwapped(_, _)
DefaultTracksSwapped(fl, i) ==
    IF i > Len(fl) THEN <<>>
    ELSE <<"--default-track", Join(<<fl[i][1], IF i > 1 THEN "1" ELSE "0">>, ":")>>
         \o DefaultTracksSwapped(fl, i + 1)

RECURSIVE DefaultTracks(_, _)
DefaultTracks(fl, i) ==
    IF i > Len(fl) THEN <<>>
    ELSE <<"--default-track", Join(<<fl[i][1], IF i > 1 THEN "0" ELSE "1">>, ":")>>
         \o DefaultTracks(fl, i + 1)

BuildCmd(lt, fl) ==
    <<"--" \o lt \o "-tracks", Join([i \in 1..Len(fl) |-> fl[i][1]], ",")>>
    \o DefaultTracks(fl, 1)

AudioIn(lt) == lt = "audio"

LanguageIn(lt) == FALSE

FilterLang(field, lang) == SelectSeq(field, LAMBDA a : a[2] = lang)

StoreArgs(rec, lt, c) ==
    [rec EXCEPT !.audio_args = IF AudioIn(lt) THEN c ELSE @,
                !.subtitle_args = IF AudioIn(lt) THEN c ELSE @]

RECURSIVE BuildArgs(_, _, _)
BuildArgs(lt, recs, i) ==
    IF i > Len(recs) THEN [recs |-> recs, error |-> ""]
    ELSE IF ~AudioIn(lt) /\ ~LanguageIn(lt)
    THEN [recs |-> recs, error |-> "UnboundLocalError"]
    ELSE LET lang == audio_language
             field == recs[i].audio
             fl == FilterLang(field, lang)
         IN  IF lang # "" /\ Len(fl) = 0
             THEN [recs |-> recs, error |-> "NameError"]
             ELSE IF Len(fl) > 1
             THEN BuildArgs(lt, recs, i + 1)
             ELSE LET c == IF Len(fl) > 0 THEN BuildCmd(lt, fl) ELSE <<>>
                  IN  BuildArgs(lt, [recs EXCEPT ![i] = StoreArgs(recs[i], lt, c)], i + 1)

----------------------------------------------------------------------------
(* _audio_check / _subtitle_check *)

FirstShort(recs, field) ==
    LET short == {i \in 1..Len(recs) : Len(recs[i][field]) < 2}
    IN  IF short = {} THEN 0 ELSE CHOOSE i \in short : \A j \in short : i <= j

Delete(recs, i) ==
    SubSeq(recs, 1, i - 1) \o SubSeq(recs, i + 1, Len(recs))

----------------------------------------------------------------------------
(* Initial states *)

Listings ==
    UNION { { s \in [1..n -> FileNames] : \A i, j \in 1..n : i # j => s[i] # s[j] }
            : n \in 0..MaxFiles }

Range(s) == {s[i] : i \in 1..Len(s)}

NoInventory == [audio |-> <<>>, subtitle |-> <<>>]

Inventories ==
    { [audio |-> Tracks(a, 0), subtitle |-> Tracks(s, Len(a))] :
        a \in AudioInventories, s \in SubtitleInventories }

BuilderIdle ==
    /\ langtype = ""
    /\ filterlang = <<>>
    /\ cmd = <<>>

Init ==
    /\ pc = "start"
    /\ error = ""
    /\ files \in Listings
    /\ inventory \in [FileNames -> Inventories \cup {NoInventory}]
    /\ \A f \in FileNames : inventory[f] = NoInventory <=> f \notin Range(files)
    /\ audio_language \in AudioRequests
    /\ subtitle_language \in SubtitleRequests
    /\ file_to_tracks = <<>>
    /\ idx = 0
    /\ fs = [p \in AllPaths |-> IF p \in Range(files) THEN Orig(p) ELSE NoFile]
    /\ status = [f \in FileNames |-> ""]
    /\ remux_cmds = [f \in FileNames |-> <<>>]
    /\ renamed = [f \in FileNames |-> 0]
    /\ BuilderIdle

----------------------------------------------------------------------------
(* Actions of the script *)

Crash(kind) ==
    /\ pc' = "crashed"
    /\ error' = kind

\* position after the remux/commit loop is done with entry i
AfterEntry(i) ==
    IF i < Len(file_to_tracks) THEN "loop" ELSE "done"

GetFileList ==
    /\ pc = "start"
    /\ pc' = IF Len(files) > 0 THEN "identify" ELSE "audio_check"
    /\ idx' = 1
    /\ UNCHANGED <<error, files, inventory, audio_language, subtitle_language,
                   file_to_tracks, fs, status, remux_cmds, renamed, builderVars>>

ListingFailure ==
    /\ pc = "start"
    /\ Crash("ListingFailure")
    /\ UNCHANGED <<files, inventory, audio_language, subtitle_language,
                   file_to_tracks, idx, fs, status, remux_cmds, renamed, builderVars>>

Identify ==
    /\ pc = "identify"
    /\ LET filename == files[idx]
       IN  file_to_tracks' = Append(file_to_tracks,
               MKVFile(filename, inventory[filename].audio, inventory[filename].subtitle))
    /\ idx' = idx + 1
    /\ pc' = IF idx < Len(files) THEN "identify" ELSE "audio_check"
    /\ UNCHANGED <<error, files, inventory, audio_language, subtitle_language,
                   fs, status, remux_cmds, renamed, builderVars>>

IdentifyFailure ==
    /\ pc = "identify"
    /\ Crash("ParseFailure")
    /\ UNCHANGED <<files, inventory, audio_language, subtitle_language,
                   file_to_tracks, idx, fs, status, remux_cmds, renamed, builderVars>>

Check(requested, field, nextpc) ==
    LET i == FirstShort(file_to_tracks, field)
    IN  IF requested # "" /\ i # 0
        THEN /\ file_to_tracks' = Delete(file_to_tracks, i)
             /\ Crash("RuntimeError")
        ELSE /\ pc' = nextpc
             /\ UNCHANGED <<file_to_tracks, error>>

AudioCheck ==
    /\ pc = "audio_check"
    /\ Check(audio_language, "audio", "subtitle_check")
    /\ UNCHANGED <<files, inventory, audio_language, subtitle_language,
                   idx, fs, status, remux_cmds, renamed, builderVars>>

SubtitleCheck ==
    /\ pc = "subtitle_check"
    /\ Check(subtitle_language, "subtitle", "build_audio")
    /\ UNCHANGED <<files, inventory, audio_language, subtitle_language,
                   idx, fs, status, remux_cmds, renamed, builderVars>>

Build(requested, lt, nextpc) ==
    IF requested # ""
    THEN LET r == BuildArgs(lt, file_to_tracks, 1)
         IN  /\ file_to_tracks' = r.recs
             /\ IF r.error # ""
                THEN Crash(r.error)
                ELSE pc' = nextpc /\ UNCHANGED error
    ELSE /\ pc' = nextpc
         /\ UNCHANGED <<file_to_tracks, error>>

BuildAudio ==
    /\ pc = "build_audio"
    /\ Build(audio_language, "audio", "build_subtitle")
    /\ UNCHANGED <<files, inventory, audio_language, subtitle_language,
                   idx, fs, status, remux_cmds, renamed, builderVars>>

BuildSubtitle ==
    /\ pc = "build_subtitle"
    /\ Build(subtitle_language, "subtitle", AfterEntry(0))
    /\ idx' = 1
    /\ UNCHANGED <<files, inventory, audio_language, subtitle_language,
                   fs, status, remux_cmds, renamed, builderVars>>

\* line 216 without its continue: the message is logged and the remux runs anyway
NoWorkFallsThrough ==
    /\ pc = "loop"
    /\ LET rec == file_to_tracks[idx]
       IN  /\ rec.audio_args = <<>> /\ rec.subtitle_args = <<>>
           /\ status' = [status EXCEPT ![rec.filename] = "No work to be done"]
           /\ remux_cmds' = [remux_cmds EXCEPT ![rec.filename] =
                 <<"-o", Temp(rec.filename), Path(rec.filename)>>]
           /\ fs' = [fs EXCEPT ![Temp(rec.filename)] = RemuxOutput(fs[Path(rec.filename)])]
    /\ pc' = "rename1"
    /\ UNCHANGED <<error, files, inventory, audio_language, subtitle_language,
                   file_to_tracks, idx, renamed, builderVars>>

NoWork ==
    /\ pc = "loop"
    /\ LET rec == file_to_tracks[idx]
       IN  /\ rec.audio_args = <<>> /\ rec.subtitle_args = <<>>
           /\ status' = [status EXCEPT ![rec.filename] = "No work to be done"]
    /\ idx' = idx + 1
    /\ pc' = AfterEntry(idx)
    /\ UNCHANGED <<error, files, inventory, audio_language, subtitle_language,
                   file_to_tracks, fs, remux_cmds, renamed, builderVars>>

RemuxCmd(rec) ==
    <<"-o", Temp(rec.filename)>> \o rec.audio_args \o rec.subtitle_args
    \o <<Path(rec.filename)>>

RemuxSuccess ==
    /\ pc = "loop"
    /\ LET rec == file_to_tracks[idx]
       IN  /\ ~(rec.audio_args = <<>> /\ rec.subtitle_args = <<>>)
           /\ remux_cmds' = [remux_cmds EXCEPT ![rec.filename] = RemuxCmd(rec)]
           /\ fs[Path(rec.filename)] # NoFile
           /\ fs' = [fs EXCEPT ![Temp(rec.filename)] = RemuxOutput(fs[Path(rec.filename)])]
           /\ status' = [status EXCEPT ![rec.filename] = "Success"]
    /\ pc' = "rename1"
    /\ UNCHANGED <<error, files, inventory, audio_language, subtitle_language,
                   file_to_tracks, idx, renamed, builderVars>>

\* line 230 without its raise: 'Failed' is logged and the renames follow
RemuxFailureNoRaise ==
    /\ pc = "loop"
    /\ LET rec == file_to_tracks[idx]
       IN  /\ ~(rec.audio_args = <<>> /\ rec.subtitle_args = <<>>)
           /\ remux_cmds' = [remux_cmds EXCEPT ![rec.filename] = RemuxCmd(rec)]
           /\ fs' = [fs EXCEPT ![Temp(rec.filename)] = "partial"]
           /\ status' = [status EXCEPT ![rec.filename] = "Failed"]
    /\ pc' = "rename1"
    /\ UNCHANGED <<error, files, inventory, audio_language, subtitle_language,
                   file_to_tracks, idx, renamed, builderVars>>

RemuxFailure ==
    /\ pc = "loop"
    /\ LET rec == file_to_tracks[idx]
       IN  /\ ~(rec.audio_args = <<>> /\ rec.subtitle_args = <<>>)
           /\ remux_cmds' = [remux_cmds EXCEPT ![rec.filename] = RemuxCmd(rec)]
           /\ \E partial \in {NoFile, "partial"} :
                 fs' = [fs EXCEPT ![Temp(rec.filename)] = partial]
           /\ status' = [status EXCEPT ![rec.filename] = "Failed"]
    /\ Crash("RemuxFailure")
    /\ UNCHANGED <<files, inventory, audio_language, subtitle_language,
                   file_to_tracks, idx, renamed, builderVars>>

Rename(src, dst) ==
    /\ fs[src] # NoFile
    /\ fs' = [fs EXCEPT ![dst] = fs[src], ![src] = NoFile]

RenameToOld ==
    /\ pc = "rename1"
    /\ LET rec == file_to_tracks[idx]
       IN  /\ Rename(Path(rec.filename), OldFile(rec.filename))
           /\ renamed' = [renamed EXCEPT ![rec.filename] = @ + 1]
    /\ pc' = "rename2"
    /\ UNCHANGED <<error, files, inventory, audio_language, subtitle_language,
                   file_to_tracks, idx, status, remux_cmds, builderVars>>

RenameTemp ==
    /\ pc = "rename2"
    /\ LET rec == file_to_tracks[idx]
       IN  /\ Rename(Temp(rec.filename), Path(rec.filename))
           /\ renamed' = [renamed EXCEPT ![rec.filename] = @ + 1]
    /\ idx' = idx + 1
    /\ pc' = AfterEntry(idx)
    /\ UNCHANGED <<error, files, inventory, audio_language, subtitle_language,
                   file_to_tracks, status, remux_cmds, builderVars>>

RenameFailure ==
    /\ pc \in {"rename1", "rename2"}
    /\ Crash("CommitFailure")
    /\ UNCHANGED <<files, inventory, audio_language, subtitle_language,
                   file_to_tracks, idx, fs, status, remux_cmds, renamed, builderVars>>

Interrupt ==
    /\ pc \in {"loop", "rename1", "rename2"}
    /\ pc' = "killed"
    /\ UNCHANGED <<error, files, inventory, audio_language, subtitle_language,
                   file_to_tracks, idx, fs, status, remux_cmds, renamed, builderVars>>

Next ==
    \/ GetFileList
    \/ ListingFailure
    \/ Identify
    \/ IdentifyFailure
    \/ AudioCheck
    \/ SubtitleCheck
    \/ BuildAudio
    \/ BuildSubtitle
    \/ NoWork
    \/ RemuxSuccess
    \/ RemuxFailure
    \/ RenameToOld
    \/ RenameTemp
    \/ RenameFailure
    \/ Interrupt

Spec == Init /\ [][Next]_vars

----------------------------------------------------------------------------
(* The argument builder of _build_args (lines 155-160) as a pure function *)

KeepSets ==
    UNION { { s \in [1..n -> TrackIds] : \A i, j \in 1..n : i # j => s[i] # s[j] }
            : n \in 1..MaxKeep }

InitBuilder ==
    /\ pc = "builder"
    /\ error = ""
    /\ files = <<>>
    /\ inventory = [f \in FileNames |-> NoInventory]
    /\ audio_language = "eng"
    /\ subtitle_language = ""
    /\ file_to_tracks = <<>>
    /\ idx = 0
    /\ fs = [p \in AllPaths |-> NoFile]
    /\ status = [f \in FileNames |-> ""]
    /\ remux_cmds = [f \in FileNames |-> <<>>]
    /\ renamed = [f \in FileNames |-> 0]
    /\ langtype \in {"audio", "subtitle"}
    /\ \E ids \in KeepSets :
          filterlang = [i \in 1..Len(ids) |-> <<ids[i], audio_language>>]
    /\ cmd = <<>>

ApplyBuilder ==
    /\ pc = "builder"
    /\ cmd = <<>>
    /\ cmd' = BuildCmd(langtype, filterlang)
    /\ UNCHANGED <<pipeVars, langtype, filterlang>>

NextBuilder == ApplyBuilder

BuilderSpec == InitBuilder /\ [][NextBuilder]_vars

----------------------------------------------------------------------------
(* Vocabulary of the properties *)

Entries == 1..Len(file_to_tracks)

AudioMatches(rec) == SelectSeq(rec.audio, LAMBDA t : t[2] = audio_language)

SubtitleMatches(rec) == SelectSeq(rec.subtitle, LAMBDA t : t[2] = subtitle_language)

\* the keep-args that keep exactly track t of a type and mark it default
KeepOnly(type, t) ==
    <<IF type = "audio" THEN "--audio-tracks" ELSE "--subtitle-tracks",
      t[1], "--default-track", t[1] \o ":1">>

\* selection (lines 201-211) has run to its end or has ended the script
SelectionOver ==
    \/ pc \in {"loop", "rename1", "rename2", "done", "killed"}
    \/ pc = "crashed" /\ error \in {"NameError", "UnboundLocalError",
                                    "RemuxFailure", "CommitFailure"}

\* identification (lines 186-196) has run for every listed file
IdentificationOver ==
    \/ pc \in {"audio_check", "subtitle_check", "build_audio", "build_subtitle"}
    \/ SelectionOver
    \/ pc = "crashed" /\ error = "RuntimeError"

----------------------------------------------------------------------------
(* C1: for every file whose commit has started, the original content is at *)
(* the original path or at the backup path old<name>, in every state.      *)
C1_OriginalNeverLost ==
    \A f \in Range(files) :
        renamed[f] > 0 => fs[Path(f)] = Orig(f) \/ fs[OldFile(f)] = Orig(f)

(* C2: once the remux tool has exited non-zero for a file (the file is      *)
(* marked Failed) no rename is ever performed for it, the step that marks   *)
(* it and every later step leave the file at its path and its backup path   *)
(* as they were, and the script has ended.                                  *)
C2_FailedRemuxNoCommit ==
    [][\A f \in FileNames :
          status'[f] = "Failed" =>
              /\ renamed'[f] = 0
              /\ fs'[Path(f)] = fs[Path(f)]
              /\ fs'[OldFile(f)] = fs[OldFile(f)]
              /\ pc' = "crashed"]_vars

C2_Witness ==
    \E f \in FileNames :
        /\ status[f] = "Failed"
        /\ error = "RemuxFailure"
        /\ remux_cmds[f] # <<>>
        /\ fs[Path(f)] = Orig(f)
        /\ \E g \in FileNames : g # f /\ renamed[g] = 2

(* C3: the script is never ended by an identification failure, by a        *)
(* selection that finds no track of the requested language, or by a remux  *)
(* failure: the batch continues past them.                                 *)
C3_BatchContinues ==
    pc = "crashed" => error \notin {"ParseFailure", "NameError", "RemuxFailure"}

(* C4: when selection is over, every file with exactly one track of a      *)
(* requested type in the requested language has keep-args of that type     *)
(* that name exactly that track and mark it default.                       *)
C4_UniqueMatchSelected ==
    SelectionOver =>
        \A i \in Entries :
            LET rec == file_to_tracks[i]
            IN  /\ (audio_language # "" /\ Len(AudioMatches(rec)) = 1)
                      => rec.audio_args = KeepOnly("audio", AudioMatches(rec)[1])
                /\ (subtitle_language # "" /\ Len(SubtitleMatches(rec)) = 1)
                      => rec.subtitle_args = KeepOnly("subtitle", SubtitleMatches(rec)[1])

(* C5: a file in which zero or several tracks of a requested type have the *)
(* requested language keeps empty keep-args for that type, and the outcome *)
(* is reported without ending the script.                                  *)
C5_NoMatchAmbiguousSkipped ==
    /\ \A i \in Entries :
          LET rec == file_to_tracks[i]
          IN  /\ (audio_language # "" /\ Len(AudioMatches(rec)) # 1)
                    => rec.audio_args = <<>>
              /\ (subtitle_language # "" /\ Len(SubtitleMatches(rec)) # 1)
                    => rec.subtitle_args = <<>>
    /\ ~(pc = "crashed" /\ error = "NameError")

(* C6: for audio (1,eng),(2,jpn), subtitles (3,eng),(4,fre), audio=eng and *)
(* subtitle=fre, selection ends with audio keep-args for track 1 (1:1) and *)
(* subtitle keep-args for track 4 (4:1).                                   *)
C6_EachTypeOwnLanguage ==
    \A i \in Entries :
        LET rec == file_to_tracks[i]
        IN  ( /\ SelectionOver
              /\ audio_language = "eng"
              /\ subtitle_language = "fre"
              /\ rec.audio = << <<"1", "eng">>, <<"2", "jpn">> >>
              /\ rec.subtitle = << <<"3", "eng">>, <<"4", "fre">> >> )
            => /\ rec.audio_args = <<"--audio-tracks", "1", "--default-track", "1:1">>
               /\ rec.subtitle_args = <<"--subtitle-tracks", "4", "--default-track", "4:1">>

(* C7: the keep-args of a type for which no language is requested stay     *)
(* empty for every file.                                                   *)
C7_UnrequestedTypeUntouched ==
    \A i \in Entries :
        LET rec == file_to_tracks[i]
        IN  /\ subtitle_language = "" => rec.subtitle_args = <<>>
            /\ audio_language = "" => rec.audio_args = <<>>

(* C8: a file with fewer than 2 tracks of a requested type stays a job of  *)
(* the batch (for the other type, or to be marked "no work"), and the      *)
(* eligibility check does not end the script.                              *)
C8_EligibilityPerType ==
    IdentificationOver =>
        /\ \A f \in Range(files) : \E i \in Entries : file_to_tracks[i].filename = f
        /\ error # "RuntimeError"

(* C9: a file whose audio and subtitle keep-args are both empty is marked  *)
(* "no work" in one step that changes nothing on disk and moves on to the  *)
(* next file; the remux tool is never run for it, it has no temporary      *)
(* file and no rename is performed for it.                                 *)
C9_NoWorkState ==
    \A f \in FileNames :
        status[f] = "No work to be done" =>
            /\ remux_cmds[f] = <<>>
            /\ fs[Temp(f)] = NoFile
            /\ renamed[f] = 0

C9_NoWorkStep ==
    \A i \in Entries :
        LET rec == file_to_tracks[i]
        IN  (pc = "loop" /\ idx = i /\ rec.audio_args = <<>> /\ rec.subtitle_args = <<>>)
            => \/ pc' = "killed" /\ fs' = fs /\ status' = status
               \/ /\ status'[rec.filename] = "No work to be done"
                  /\ fs' = fs
                  /\ remux_cmds' = remux_cmds
                  /\ renamed' = renamed
                  /\ idx' = i + 1
                  /\ pc' = IF i < Len(file_to_tracks) THEN "loop" ELSE "done"

C9_NoWorkSkipped == []C9_NoWorkState /\ [][C9_NoWorkStep]_vars

C9_Witness ==
    \E f, g \in FileNames :
        /\ f # g
        /\ status[f] = "No work to be done"
        /\ audio_language # ""
        /\ fs[Path(f)] = Orig(f)
        /\ renamed[g] = 2

(* C10: for a non-empty keep-set the builder yields the type's selector,   *)
(* the ids comma-joined in order, then per id in order "--default-track"   *)
(* and id:priority, priority 1 for the first id and 0 for the others.      *)
RECURSIVE CommaJoined(_)
CommaJoined(ids) ==
    IF Len(ids) = 1 THEN ids[1]
    ELSE CommaJoined(SubSeq(ids, 1, Len(ids) - 1)) \o "," \o ids[Len(ids)]

C10_BuilderOutput ==
    cmd # <<>> =>
        LET n == Len(filterlang)
            ids == [i \in 1..n |-> filterlang[i][1]]
        IN  /\ Len(cmd) = 2 + 2 * n
            /\ cmd[1] = IF langtype = "audio" THEN "--audio-tracks" ELSE "--subtitle-tracks"
            /\ cmd[2] = CommaJoined(ids)
            /\ \A i \in 1..n :
                  /\ cmd[2 * i + 1] = "--default-track"
                  /\ cmd[2 * i + 2] = ids[i] \o ":" \o (IF i = 1 THEN "1" ELSE "0")

C10_Witness ==
    /\ langtype = "audio"
    /\ filterlang = << <<"5", "eng">>, <<"7", "eng">> >>
    /\ cmd = <<"--audio-tracks", "5,7", "--default-track", "5:1", "--default-track", "7:0">>

====
